---- MODULE Spec2Model ----
(***************************************************************************)
(* A model of the Sweep rules engine: the data model (models.py), the      *)
(* combination search and valid-action generator (sweep_game.py), the      *)
(* three action executions (actions.py) and the round lifecycle            *)
(* (SweepGame.run_game).                                                   *)
(*                                                                         *)
(* A card is its index in the freshly built deck (suit-major), 0..51.      *)
(* A table item is a record; a bare card and a Pile share the fields       *)
(* value and cards, so that "x.value" reads the same for both.             *)
(***************************************************************************)
EXTENDS Integers, Sequences, FiniteSets, TLC

VARIABLES deck, table, hand, captured, points, sweeps, piles,
          last_to_pick_up, point_differential, turn, round,
          pc, declared, offered, last, err,
          q_value, q_addition, combos

vars == <<deck, table, hand, captured, points, sweeps, piles,
          last_to_pick_up, point_differential, turn, round,
          pc, declared, offered, last, err,
          q_value, q_addition, combos>>

game_vars == <<deck, table, hand, captured, points, sweeps, piles,
               last_to_pick_up, point_differential, turn, round>>

----------------------------------------------------------------------------
(* Bounds of the model *)

\* how many of the deck orders of Shuffles random.shuffle may produce
NumShuffles == 4
\* the chooser picks any offered action once the mover holds at most this
\* many cards, and the first offered action before that
FreeHand == 2
\* sizes of the tables and hands the generator is queried on in SpecQuery
MaxQTable == 4
MaxQHand == 2

----------------------------------------------------------------------------
(* models.py: cards *)

NumCards == 52
NumRanks == 13
Players == {0, 1}
\* "no player" (None) for last_to_pick_up, "no card" (None) for addition
None == -1

Suit(c) == c \div NumRanks
Value(c) == (c % NumRanks) + 1

\* the deck built by [Card(rank, suit) for suit in SUITS for rank in RANKS]
FreshDeck == [i \in 1..NumCards |-> i - 1]

\* points assigned by initialize_round
CardPoints(c) ==
    IF Suit(c) = 0 \/ Value(c) = 1 THEN Value(c)
    ELSE IF Value(c) = 10 /\ Suit(c) = 2 THEN 2
    ELSE 0

ActionType == [PICK_UP |-> 1, PILE_ON |-> 2, THROW |-> 3]

----------------------------------------------------------------------------
(* sequence helpers standing for the list operations of the code *)

Range(s) == {s[i] : i \in 1..Len(s)}

RECURSIVE SumCardValues(_)
\* sum(card.value for card in cards)
SumCardValues(cards) ==
    IF cards = <<>> THEN 0 ELSE Value(Head(cards)) + SumCardValues(Tail(cards))

RECURSIVE SumCardPoints(_)
\* sum(card.points for card in cards)
SumCardPoints(cards) ==
    IF cards = <<>> THEN 0 ELSE CardPoints(Head(cards)) + SumCardPoints(Tail(cards))

\* index of the first element equal to x, 0 when there is none
IndexOf(s, x) ==
    IF \E i \in 1..Len(s) : s[i] = x
    THEN CHOOSE i \in 1..Len(s) : s[i] = x /\ \A j \in 1..(i - 1) : s[j] # x
    ELSE 0

\* s without its element at index i
RemoveAt(s, i) == SubSeq(s, 1, i - 1) \o SubSeq(s, i + 1, Len(s))

\* list.remove(x) on a list that holds x: the first equal element goes
ListRemove(s, x) == RemoveAt(s, IndexOf(s, x))

\* s[a:b] of Python, 0-based and end-exclusive, clipped to the list
Slice(s, a, b) ==
    LET lo == IF a < Len(s) THEN a + 1 ELSE Len(s) + 1
        hi == IF b < Len(s) THEN b ELSE Len(s)
    IN  SubSeq(s, lo, hi)

RECURSIVE ConcatAll(_)
ConcatAll(ss) == IF ss = <<>> THEN <<>> ELSE Head(ss) \o ConcatAll(Tail(ss))

\* list.sort() of cards: Card.__lt__ compares values, the sort is stable
SortCards(cards) ==
    ConcatAll([v \in 1..NumRanks |-> SelectSeq(cards, LAMBDA c : Value(c) = v)])

\* list.sort() of table items: __lt__ compares values, the sort is stable
SortItems(items) ==
    ConcatAll([v \in 1..NumRanks |-> SelectSeq(items, LAMBDA x : x.value = v)])

----------------------------------------------------------------------------
(* models.py: table items *)

\* a bare Card lying on the table
CardItem(c) ==
    [pile |-> FALSE, value |-> Value(c), cards |-> <<c>>,
     creators |-> {}, doubled |-> FALSE]

\* Pile with doubled set from one multiple on
Pile_early(creators, cards, value) ==
    LET sum_of_cards == SumCardValues(cards)
    IN  [ok |-> sum_of_cards % value = 0,
         item |-> [pile |-> TRUE, value |-> value, cards |-> cards,
                   creators |-> creators,
                   doubled |-> (sum_of_cards % value = 0
                                /\ sum_of_cards \div value >= 1)]]

\* Pile.__init__: ok is FALSE when the constructor raises ValueError
Pile(creators, cards, value) ==
    LET sum_of_cards == SumCardValues(cards)
    IN  [ok |-> sum_of_cards % value = 0,
         item |-> [pile |-> TRUE, value |-> value, cards |-> cards,
                   creators |-> creators,
                   doubled |-> (sum_of_cards % value = 0
                                /\ sum_of_cards \div value >= 2)]]

\* every card lying on the table, bare or inside a pile
TableCards(t) == ConcatAll([i \in 1..Len(t) |-> t[i].cards])

----------------------------------------------------------------------------
(* itertools.combinations: index sets in the order the generator yields   *)
(* them when it is run for r = 1, 2, ... in turn: by size, then            *)
(* lexicographically by the increasing index tuple                         *)

MinOf(S) == CHOOSE x \in S : \A y \in S : x <= y

\* the increasing tuple of A is yielded before the tuple of B
CombBefore(A, B) ==
    \/ Cardinality(A) < Cardinality(B)
    \/ /\ Cardinality(A) = Cardinality(B)
       /\ A # B
       /\ MinOf((A \ B) \cup (B \ A)) \in A

RECURSIVE InCombOrder(_)
\* the index sets of S as the list itertools yields them
InCombOrder(S) ==
    IF S = {} THEN <<>>
    ELSE LET first == CHOOSE A \in S : \A B \in S \ {A} : CombBefore(A, B)
         IN  <<first>> \o InCombOrder(S \ {first})

RECURSIVE IncreasingSeq(_)
\* the elements of a set of integers in increasing order
IncreasingSeq(S) ==
    IF S = {} THEN <<>>
    ELSE <<MinOf(S)>> \o IncreasingSeq(S \ {MinOf(S)})

\* list(combo) for the index set A over the list s
Pick(s, A) == LET idx == IncreasingSeq(A) IN [k \in 1..Len(idx) |-> s[idx[k]]]

RECURSIVE SumAt(_, _)
\* sum(card.value for card in combo), combo given by its index set
SumAt(s, A) ==
    IF A = {} THEN 0
    ELSE LET i == CHOOSE i \in A : TRUE IN s[i].value + SumAt(s, A \ {i})

----------------------------------------------------------------------------
(* sweep_game.py: SweepGame.number_combinations *)

\* CandidatePool with the test of x.doubled forgotten
CandidatePool_doubled(tbl, mover, value, addition) ==
    SelectSeq(tbl, LAMBDA x :
        /\ x.value < value
        /\ ~(x.pile /\ (addition = None \/ mover \in x.creators)))

\* CandidatePool with the test of the pile's creators forgotten
CandidatePool_owned(tbl, mover, value, addition) ==
    SelectSeq(tbl, LAMBDA x :
        /\ x.value < value
        /\ ~(x.pile /\ (addition = None \/ x.doubled)))

\* the eligible lower-valued items (the local list "table" before addition)
CandidatePool(tbl, mover, value, addition) ==
    SelectSeq(tbl, LAMBDA x :
        /\ x.value < value
        /\ ~(x.pile /\ (addition = None \/ x.doubled \/ mover \in x.creators)))

\* the list "table" after the addition was appended and the list sorted
SearchList(tbl, mover, value, addition) ==
    LET pool == CandidatePool(tbl, mover, value, addition)
    IN  SortItems(IF addition # None /\ Value(addition) < value
                  THEN Append(pool, CardItem(addition)) ELSE pool)

\* Equalities taking bare cards only
Equalities_bare(tbl, value, addition) ==
    LET eq == SelectSeq(tbl, LAMBDA x : x.value = value /\ ~x.pile)
    IN  IF addition # None /\ Value(addition) = value
        THEN Append(eq, CardItem(addition)) ELSE eq

\* the list "equalities", the addition appended when its value is the target
Equalities(tbl, value, addition) ==
    LET eq == SelectSeq(tbl, LAMBDA x : x.value = value)
    IN  IF addition # None /\ Value(addition) = value
        THEN Append(eq, CardItem(addition)) ELSE eq

\* TargetValueCombos with the sizes stopping one short, range(1, len(table))
TargetValueCombos_short(search, value) ==
    InCombOrder({A \in SUBSET (1..Len(search)) :
                    A # {} /\ A # 1..Len(search) /\ SumAt(search, A) = value})

\* target_value_combos, each list given by its index set in the search list
TargetValueCombos(search, value) ==
    InCombOrder({A \in SUBSET (1..Len(search)) : A # {} /\ SumAt(search, A) = value})

\* SelectionKept with the test of used_cards forgotten
SelectionKept_overlap(search, tvc, sel, addition, addition_is_equal) ==
    LET items(g) == {search[i] : i \in tvc[g]}
        used_cards == UNION {items(g) : g \in sel}
        unused_combos == {g \in 1..Len(tvc) : \A h \in sel : Pick(search, tvc[g]) # Pick(search, tvc[h])}
    IN  /\ ~(addition # None /\ ~addition_is_equal
             /\ CardItem(addition) \notin used_cards)
        /\ \A uc \in unused_combos : items(uc) \cap used_cards # {}

\* SelectionKept with the test of unused_combos forgotten
SelectionKept_notmax(search, tvc, sel, addition, addition_is_equal) ==
    LET items(g) == {search[i] : i \in tvc[g]}
        used_cards == UNION {items(g) : g \in sel}
        invalid_combo == \E g, h \in sel : g # h /\ items(g) \cap items(h) # {}
    IN  /\ ~invalid_combo
        /\ ~(addition # None /\ ~addition_is_equal
             /\ CardItem(addition) \notin used_cards)

\* the selection sel (indices into tvc) passes the three tests of the loop
\* body: no card used twice, the addition used, no unused group left free
SelectionKept(search, tvc, sel, addition, addition_is_equal) ==
    LET items(g) == {search[i] : i \in tvc[g]}
        used_cards == UNION {items(g) : g \in sel}
        invalid_combo == \E g, h \in sel : g # h /\ items(g) \cap items(h) # {}
        unused_combos == {g \in 1..Len(tvc) : \A h \in sel : Pick(search, tvc[g]) # Pick(search, tvc[h])}
    IN  /\ ~invalid_combo
        /\ ~(addition # None /\ ~addition_is_equal
             /\ CardItem(addition) \notin used_cards)
        /\ \A uc \in unused_combos : items(uc) \cap used_cards # {}

\* the list the selection sel stands for: its groups flattened, in order
Flatten(search, tvc, sel) ==
    ConcatAll([k \in 1..Cardinality(sel) |-> Pick(search, tvc[IncreasingSeq(sel)[k]])])

\* the selections of groups the loops keep, in the order of
\* combinations(target_value_combos, r) for r = 1, 2, ...
KeptSelections(search, tvc, addition, addition_is_equal) ==
    InCombOrder({sel \in SUBSET (1..Len(tvc)) :
        sel # {} /\ SelectionKept(search, tvc, sel, addition, addition_is_equal)})

\* UniqueMaximalCombos with "+ equalities" forgotten
UniqueMaximalCombos_bare(search, tvc, kept, equalities) ==
    [k \in 1..Len(kept) |-> Flatten(search, tvc, kept[k])]

\* unique_maximal_combos after the loops: each kept selection flattened and
\* followed by equalities
UniqueMaximalCombos(search, tvc, kept, equalities) ==
    [k \in 1..Len(kept) |-> Flatten(search, tvc, kept[k]) \o equalities]

\* the fallback at the end: the equalities alone when nothing was found
WithFallback(found, equalities, addition, addition_is_equal) ==
    IF /\ (addition = None \/ (addition_is_equal /\ Len(equalities) > 1))
       /\ found = <<>>
       /\ equalities # <<>>
    THEN <<equalities>>
    ELSE found

\* the search over the groups that sum to the target value
CombinationsOfGroups(search, tvc, equalities, addition, addition_is_equal) ==
    WithFallback(
        UniqueMaximalCombos(search, tvc,
                            KeptSelections(search, tvc, addition, addition_is_equal),
                            equalities),
        equalities, addition, addition_is_equal)

\* the search once the lists "table" and "equalities" are built
CombinationsOver(search, equalities, value, addition) ==
    CombinationsOfGroups(search, TargetValueCombos(search, value), equalities,
                         addition, addition # None /\ Value(addition) = value)

NumberCombinations(tbl, mover, value, addition) ==
    IF addition # None /\ Value(addition) > value THEN <<>>
    ELSE CombinationsOver(SearchList(tbl, mover, value, addition),
                          Equalities(tbl, value, addition), value, addition)

----------------------------------------------------------------------------
(* actions.py: create_action and the three constructors *)

\* PickUpAction and ThrowAction take the played card's value, PileOnAction the
\* value it is given; ThrowAction drops the other cards
CreateAction(action_type, played_card, value, other_cards) ==
    [action_type |-> action_type,
     played_card |-> played_card,
     value |-> IF action_type = ActionType.PILE_ON THEN value ELSE Value(played_card),
     other_cards |-> IF action_type = ActionType.THROW THEN <<>> ELSE other_cards]

\* the constructor raises ValueError("Must have other cards ...")
CreateRaises(action_type, other_cards) ==
    action_type # ActionType.THROW /\ other_cards = <<>>

NoAction == [action_type |-> 0, played_card |-> None, value |-> 0, other_cards |-> <<>>]

----------------------------------------------------------------------------
(* sweep_game.py: SweepGame.get_valid_actions *)

\* [c.value for c in cards if c != card]
OtherCardValues(cards, card) == {Value(c) : c \in Range(cards) \ {card}}

\* Locked with the card itself counted among the other cards
Locked_self(cards, pls, mover, card) ==
    /\ Value(card) \in DOMAIN pls
    /\ mover \in pls[Value(card)].creators
    /\ Value(card) \notin {Value(c) : c \in Range(cards)}

\* the test before "continue": the card is the only key to a pile of the mover
Locked(cards, pls, mover, card) ==
    /\ Value(card) \in DOMAIN pls
    /\ mover \in pls[Value(card)].creators
    /\ Value(card) \notin OtherCardValues(cards, card)

\* PileOnValues with the test "v in other_card_values" forgotten
PileOnValues_any(cards, card) == 9..13

\* the target values the Pile On loop searches for the card
PileOnValues(cards, card) == {v \in 9..13 : v \in OtherCardValues(cards, card)}

\* ThrowBlocked with "combos and" forgotten
ThrowBlocked_any(found, v, pls, mover) ==
    /\ v \in DOMAIN pls
    /\ mover \in pls[v].creators

\* the test that clears can_throw in the Pile On loop: groups were found for
\* a target value at which the mover already has a pile
ThrowBlocked(found, v, pls, mover) ==
    /\ found # <<>>
    /\ v \in DOMAIN pls
    /\ mover \in pls[v].creators

\* the PileOn actions built from the groups found for the target value v
PileOnActions(card, v, found) ==
    [j \in 1..Len(found) |->
        CreateAction(ActionType.PILE_ON, card, v, ListRemove(found[j], CardItem(card)))]

\* c.remove(card) or the PileOnAction constructor raises for a group found
PileOnRaises(card, found) ==
    \E j \in 1..Len(found) :
        \/ IndexOf(found[j], CardItem(card)) = 0
        \/ CreateRaises(ActionType.PILE_ON, ListRemove(found[j], CardItem(card)))

\* the actions appended for one card, given the groups of the Pick Up check
\* (pick) and those of the Pile On check for each target value of vs (found)
ActionsFromGroups(cards, pls, mover, card, pick, vs, found) ==
    [actions |->
        [k \in 1..Len(pick) |-> CreateAction(ActionType.PICK_UP, card, Value(card), pick[k])]
        \o (IF Locked(cards, pls, mover, card) THEN <<>>
            ELSE ConcatAll([k \in 1..Len(vs) |-> PileOnActions(card, vs[k], found[k])])
                 \o (IF pick = <<>>
                        /\ \A k \in 1..Len(vs) : ~ThrowBlocked(found[k], vs[k], pls, mover)
                     THEN <<CreateAction(ActionType.THROW, card, Value(card), <<>>)>>
                     ELSE <<>>)),
     raises |->
        \/ \E k \in 1..Len(pick) : CreateRaises(ActionType.PICK_UP, pick[k])
        \/ /\ ~Locked(cards, pls, mover, card)
           /\ \E k \in 1..Len(vs) : PileOnRaises(card, found[k])]

\* the Pile On check of one card: the groups found for each target value
PileOnGroups(tbl, mover, card, vs) ==
    [k \in 1..Len(vs) |-> NumberCombinations(tbl, mover, vs[k], card)]

\* the body of the loop "for card in cards": the actions appended for one
\* card, and whether a constructor or c.remove(card) raised on the way
ActionsForCard(cards, tbl, pls, mover, card) ==
    ActionsFromGroups(cards, pls, mover, card,
                      NumberCombinations(tbl, mover, Value(card), None),
                      IncreasingSeq(PileOnValues(cards, card)),
                      PileOnGroups(tbl, mover, card, IncreasingSeq(PileOnValues(cards, card))))

\* valid_actions once every card was handled
Collect(per_card) ==
    [actions |-> ConcatAll([i \in 1..Len(per_card) |-> per_card[i].actions]),
     raises |-> \E i \in 1..Len(per_card) : per_card[i].raises]

\* GetValidActions walking the hand from its last card
GetValidActions_rev(cards, tbl, pls, mover) ==
    Collect([i \in 1..Len(cards) |->
                ActionsForCard(cards, tbl, pls, mover, cards[Len(cards) + 1 - i])])

\* valid_actions as returned, and whether the call raised instead
GetValidActions(cards, tbl, pls, mover) ==
    Collect([i \in 1..Len(cards) |-> ActionsForCard(cards, tbl, pls, mover, cards[i])])

----------------------------------------------------------------------------
(* actions.py: the three execute methods.  A game g is the record of the   *)
(* fields execute reads and writes; err names the exception that ended the *)
(* call, with the fields as the statements before it left them             *)

NoPiles == [v \in {} |-> CardItem(0)]

\* PilesWithout with the del forgotten
PilesWithout_kept(pls, value) == pls

\* del game.piles[value]
PilesWithout(pls, value) == [v \in DOMAIN pls \ {value} |-> pls[v]]

\* game.piles[value] = pile
PilesWith(pls, value, pile) ==
    [v \in DOMAIN pls \cup {value} |-> IF v = value THEN pile ELSE pls[v]]

RECURSIVE ConsumeItems_any(_, _, _, _)
\* ConsumeItems taking over the creators of every consumed pile
ConsumeItems_any(items, st, action_value, inherit) ==
    IF items = <<>> \/ st.err # "none" THEN st
    ELSE LET item == Head(items)
             creators == IF inherit /\ item.pile
                         THEN item.creators ELSE st.creators
             key_error == item.pile /\ item.value \notin DOMAIN st.piles
             pls == IF item.pile THEN PilesWithout(st.piles, item.value) ELSE st.piles
             acc == st.acc \o item.cards
         IN  IF key_error
             THEN [st EXCEPT !.creators = creators, !.err = "KeyError"]
             ELSE IF IndexOf(st.table, item) = 0
             THEN [st EXCEPT !.creators = creators, !.piles = pls, !.acc = acc,
                             !.err = "ValueError"]
             ELSE ConsumeItems_any(Tail(items),
                               [st EXCEPT !.creators = creators, !.piles = pls,
                                          !.acc = acc,
                                          !.table = ListRemove(st.table, item)],
                               action_value, inherit)

RECURSIVE ConsumeItems(_, _, _, _)
\* the loop "for item in self.other_cards" of PickUpAction.execute and of
\* PileOnAction.execute (inherit: the pile-on loop, which takes over the
\* creators of a consumed pile of the action's value); st carries the table,
\* the pile index, the accumulated cards and the creators
ConsumeItems(items, st, action_value, inherit) ==
    IF items = <<>> \/ st.err # "none" THEN st
    ELSE LET item == Head(items)
             creators == IF inherit /\ item.pile /\ item.value = action_value
                         THEN item.creators ELSE st.creators
             key_error == item.pile /\ item.value \notin DOMAIN st.piles
             pls == IF item.pile THEN PilesWithout(st.piles, item.value) ELSE st.piles
             acc == st.acc \o item.cards
         IN  IF key_error
             THEN [st EXCEPT !.creators = creators, !.err = "KeyError"]
             ELSE IF IndexOf(st.table, item) = 0
             THEN [st EXCEPT !.creators = creators, !.piles = pls, !.acc = acc,
                             !.err = "ValueError"]
             ELSE ConsumeItems(Tail(items),
                               [st EXCEPT !.creators = creators, !.piles = pls,
                                          !.acc = acc,
                                          !.table = ListRemove(st.table, item)],
                               action_value, inherit)

\* PickUpExecute with the assignment of game.last_to_pick_up forgotten
PickUpExecute_nolast(a, g) ==
    LET mover == g.turn
    IN  IF IndexOf(g.hand[mover], a.played_card) = 0
        THEN [g EXCEPT !.err = "ValueError"]
        ELSE
        LET hand1 == [g.hand EXCEPT ![mover] = ListRemove(@, a.played_card)]
            st == ConsumeItems(a.other_cards,
                               [table |-> g.table, piles |-> g.piles,
                                acc |-> <<a.played_card>>, creators |-> {},
                                err |-> "none"],
                               a.value, FALSE)
            sweep == /\ Len(st.table) = 0
                     /\ (Len(g.deck) > 0 \/ \E p \in Players : Len(hand1[p]) > 0)
        IN  IF st.err # "none"
            THEN [g EXCEPT !.hand = hand1, !.table = st.table, !.piles = st.piles,
                           !.err = st.err]
            ELSE [g EXCEPT !.hand = hand1, !.table = st.table, !.piles = st.piles,
                           !.points[mover] = @ + SumCardPoints(st.acc),
                           !.captured[mover] = @ \o st.acc,
                           !.sweeps[mover] = IF sweep THEN @ + 1 ELSE @]

\* PickUpExecute with the sweep awarded whenever the table is left empty
PickUpExecute_bare(a, g) ==
    LET mover == g.turn
    IN  IF IndexOf(g.hand[mover], a.played_card) = 0
        THEN [g EXCEPT !.err = "ValueError"]
        ELSE
        LET hand1 == [g.hand EXCEPT ![mover] = ListRemove(@, a.played_card)]
            st == ConsumeItems(a.other_cards,
                               [table |-> g.table, piles |-> g.piles,
                                acc |-> <<a.played_card>>, creators |-> {},
                                err |-> "none"],
                               a.value, FALSE)
            sweep == Len(st.table) = 0
        IN  IF st.err # "none"
            THEN [g EXCEPT !.hand = hand1, !.table = st.table, !.piles = st.piles,
                           !.err = st.err]
            ELSE [g EXCEPT !.hand = hand1, !.table = st.table, !.piles = st.piles,
                           !.points[mover] = @ + SumCardPoints(st.acc),
                           !.captured[mover] = @ \o st.acc,
                           !.sweeps[mover] = IF sweep THEN @ + 1 ELSE @,
                           !.last_to_pick_up = mover]

\* PickUpAction.execute
PickUpExecute(a, g) ==
    LET mover == g.turn
    IN  IF IndexOf(g.hand[mover], a.played_card) = 0
        THEN [g EXCEPT !.err = "ValueError"]
        ELSE
        LET hand1 == [g.hand EXCEPT ![mover] = ListRemove(@, a.played_card)]
            st == ConsumeItems(a.other_cards,
                               [table |-> g.table, piles |-> g.piles,
                                acc |-> <<a.played_card>>, creators |-> {},
                                err |-> "none"],
                               a.value, FALSE)
            picked_up_cards == st.acc
            gained_points == SumCardPoints(picked_up_cards)
            sweep == /\ Len(st.table) = 0
                     /\ (Len(g.deck) > 0 \/ \E p \in Players : Len(hand1[p]) > 0)
        IN  IF st.err # "none"
            THEN [g EXCEPT !.hand = hand1, !.table = st.table, !.piles = st.piles,
                           !.err = st.err]
            ELSE [g EXCEPT !.hand = hand1, !.table = st.table, !.piles = st.piles,
                           !.points[mover] = @ + gained_points,
                           !.captured[mover] = @ \o picked_up_cards,
                           !.sweeps[mover] = IF sweep THEN @ + 1 ELSE @,
                           !.last_to_pick_up = mover]

\* PileOnAction.execute naming both players as creators of the new pile
PileOnExecute_both(a, g) ==
    LET mover == g.turn
    IN  IF IndexOf(g.hand[mover], a.played_card) = 0
        THEN [g EXCEPT !.err = "ValueError"]
        ELSE
        LET hand1 == [g.hand EXCEPT ![mover] = ListRemove(@, a.played_card)]
            st == ConsumeItems(a.other_cards,
                               [table |-> g.table, piles |-> g.piles,
                                acc |-> <<a.played_card>>, creators |-> {},
                                err |-> "none"],
                               a.value, TRUE)
            new_pile == Pile(Players, st.acc, a.value)
        IN  IF st.err # "none"
            THEN [g EXCEPT !.hand = hand1, !.table = st.table, !.piles = st.piles,
                           !.err = st.err]
            ELSE IF ~new_pile.ok
            THEN [g EXCEPT !.hand = hand1, !.table = st.table, !.piles = st.piles,
                           !.err = "ValueError"]
            ELSE [g EXCEPT !.hand = hand1,
                           !.table = Append(st.table, new_pile.item),
                           !.piles = PilesWith(st.piles, a.value, new_pile.item)]

\* PileOnAction.execute
PileOnExecute(a, g) ==
    LET mover == g.turn
    IN  IF IndexOf(g.hand[mover], a.played_card) = 0
        THEN [g EXCEPT !.err = "ValueError"]
        ELSE
        LET hand1 == [g.hand EXCEPT ![mover] = ListRemove(@, a.played_card)]
            st == ConsumeItems(a.other_cards,
                               [table |-> g.table, piles |-> g.piles,
                                acc |-> <<a.played_card>>, creators |-> {},
                                err |-> "none"],
                               a.value, TRUE)
            new_pile == Pile(st.creators \cup {mover}, st.acc, a.value)
        IN  IF st.err # "none"
            THEN [g EXCEPT !.hand = hand1, !.table = st.table, !.piles = st.piles,
                           !.err = st.err]
            ELSE IF ~new_pile.ok
            THEN [g EXCEPT !.hand = hand1, !.table = st.table, !.piles = st.piles,
                           !.err = "ValueError"]
            ELSE [g EXCEPT !.hand = hand1,
                           !.table = Append(st.table, new_pile.item),
                           !.piles = PilesWith(st.piles, a.value, new_pile.item)]

\* ThrowExecute with the hand.remove forgotten
ThrowExecute_kept(a, g) ==
    [g EXCEPT !.table = Append(@, CardItem(a.played_card))]

\* ThrowAction.execute
ThrowExecute(a, g) ==
    LET mover == g.turn
    IN  IF IndexOf(g.hand[mover], a.played_card) = 0
        THEN [g EXCEPT !.err = "ValueError"]
        ELSE [g EXCEPT !.hand[mover] = ListRemove(@, a.played_card),
                       !.table = Append(@, CardItem(a.played_card))]

\* action.execute(game), dispatched on the class create_action chose
Execute(a, g) ==
    IF a.action_type = ActionType.PICK_UP THEN PickUpExecute(a, g)
    ELSE IF a.action_type = ActionType.PILE_ON THEN PileOnExecute(a, g)
    ELSE ThrowExecute(a, g)

----------------------------------------------------------------------------
(* sweep_game.py: the round, one action per step of run_game *)

\* deck orders random.shuffle may leave; the second is the deck as built,
\* with no card of value 9 or more at deck[4:8], so first_move shuffles again
Shuffles ==
    << <<19, 40, 25, 33, 1, 7, 8, 38, 9, 4, 34, 30, 47, 21, 44, 26, 23, 12, 27, 42, 35, 28, 29, 17, 39, 15,
      2, 24, 20, 49, 5, 41, 14, 13, 51, 10, 36, 16, 32, 46, 37, 43, 11, 45, 6, 31, 22, 0, 3, 50, 48, 18>>,
       <<0, 1, 2, 3, 4, 5, 6, 7, 8, 9, 10, 11, 12, 13, 14, 15, 16, 17, 18, 19, 20, 21, 22, 23, 24, 25,
      26, 27, 28, 29, 30, 31, 32, 33, 34, 35, 36, 37, 38, 39, 40, 41, 42, 43, 44, 45, 46, 47, 48, 49, 50, 51>>,
       <<44, 2, 45, 0, 9, 26, 46, 48, 38, 10, 50, 22, 36, 20, 8, 51, 24, 29, 33, 35, 13, 1, 32, 40, 19, 18,
      6, 37, 34, 41, 16, 39, 42, 21, 15, 47, 43, 23, 17, 4, 12, 49, 3, 28, 27, 14, 11, 30, 31, 7, 25, 5>>,
       <<0, 16, 3, 6, 34, 33, 47, 28, 13, 19, 40, 22, 20, 38, 4, 10, 15, 29, 8, 11, 5, 30, 46, 44, 31, 7,
      51, 26, 1, 14, 17, 21, 9, 24, 45, 37, 32, 39, 36, 48, 18, 41, 35, 42, 23, 50, 27, 43, 49, 25, 12, 2>>,
       <<46, 48, 35, 36, 45, 7, 37, 6, 39, 14, 24, 23, 17, 0, 8, 29, 20, 25, 26, 34, 1, 18, 30, 33, 43, 22,
      3, 10, 13, 31, 47, 9, 49, 51, 50, 44, 19, 27, 40, 41, 42, 21, 5, 16, 4, 12, 11, 38, 2, 15, 32, 28>> >>

\* Player 2 is built with is_ai=True
IsAI(p) == p = 1

\* the fields of the game as a record, for Execute
Game ==
    [deck |-> deck, table |-> table, hand |-> hand, captured |-> captured,
     points |-> points, sweeps |-> sweeps, piles |-> piles,
     last_to_pick_up |-> last_to_pick_up, turn |-> turn, err |-> "none"]

\* SweepGame.__init__: the loop appends the slices themselves to the hands
Init ==
    /\ turn \in Players
    /\ deck = Slice(FreshDeck, 16, NumCards)
    /\ hand = [p \in Players |->
                 IF p = turn
                 THEN <<Slice(FreshDeck, 0, 4), Slice(FreshDeck, 8, 12)>>
                 ELSE <<Slice(FreshDeck, 4, 8), Slice(FreshDeck, 12, 16)>>]
    /\ table = <<>>
    /\ captured = [p \in Players |-> <<>>]
    /\ points = [p \in Players |-> 0]
    /\ sweeps = [p \in Players |-> 0]
    /\ piles = NoPiles
    /\ last_to_pick_up = None
    /\ point_differential = 0
    /\ round = 0
    /\ pc = "constructed"
    /\ declared = 0
    /\ offered = <<>>
    /\ last = NoAction
    /\ err = "none"
    /\ q_value = 0
    /\ q_addition = None
    /\ combos = <<>>

\* InitializeRound with the player who is behind opening the round
InitializeRound_behind ==
    /\ pc \in {"constructed", "scored"}
    /\ deck' = FreshDeck
    /\ table' = <<>>
    /\ round' = round + 1
    /\ piles' = NoPiles
    /\ last_to_pick_up' = None
    /\ turn' = IF point_differential < 0 THEN 0
               ELSE IF point_differential > 0 THEN 1
               ELSE turn
    /\ hand' = [p \in Players |-> <<>>]
    /\ captured' = [p \in Players |-> <<>>]
    /\ sweeps' = [p \in Players |-> 0]
    /\ points' = [p \in Players |-> 0]
    /\ pc' = IF pc = "constructed" THEN "first_move" ELSE "next_round"
    /\ UNCHANGED <<point_differential, declared, offered, last, err,
                   q_value, q_addition, combos>>

\* SweepGame.initialize_round, called first by run_game; run_game may be
\* called again on a game that was scored, and the model follows that second
\* call to the end of initialize_round
InitializeRound ==
    /\ pc \in {"constructed", "scored"}
    /\ deck' = FreshDeck
    /\ table' = <<>>
    /\ round' = round + 1
    /\ piles' = NoPiles
    /\ last_to_pick_up' = None
    /\ turn' = IF point_differential < 0 THEN 1
               ELSE IF point_differential > 0 THEN 0
               ELSE turn
    /\ hand' = [p \in Players |-> <<>>]
    /\ captured' = [p \in Players |-> <<>>]
    /\ sweeps' = [p \in Players |-> 0]
    /\ points' = [p \in Players |-> 0]
    /\ pc' = IF pc = "constructed" THEN "first_move" ELSE "next_round"
    /\ UNCHANGED <<point_differential, declared, offered, last, err,
                   q_value, q_addition, combos>>

\* DeclareChoices with the declaration not checked against the hand
DeclareChoices_range(cards, p) == 9..13

\* DeclareChoices with the AI declaring as a human may
DeclareChoices_free(cards, p) ==
    {Value(c) : c \in {c \in Range(cards) : Value(c) >= 9}}

\* the values a human may declare, and the one the AI declares
DeclareChoices(cards, p) ==
    IF IsAI(p)
    THEN {CHOOSE m \in {Value(c) : c \in Range(cards)} :
              \A c \in Range(cards) : Value(c) <= m}
    ELSE {Value(c) : c \in {c \in Range(cards) : Value(c) >= 9}}

\* SweepGame.first_move up to its call of play_turn: the shuffle that is
\* kept, the opener's hand, the declaration, the table and the other hand
FirstMove ==
    /\ pc = "first_move"
    /\ \E s \in 1..NumShuffles :
         LET shuffled == Shuffles[s]
             opener == SortCards(Slice(shuffled, 4, 8))
             deck1 == Slice(shuffled, 0, 4) \o Slice(shuffled, 8, NumCards)
         IN  /\ \E c \in Range(Slice(shuffled, 4, 8)) : Value(c) >= 9
             /\ \E d \in DeclareChoices(opener, turn) : declared' = d
             /\ table' = [i \in 1..4 |-> CardItem(deck1[i])]
             /\ hand' = [p \in Players |->
                           IF p = turn THEN opener ELSE Slice(deck1, 4, 8)]
             /\ deck' = Slice(deck1, 8, Len(deck1))
    /\ pc' = "open_play"
    /\ UNCHANGED <<captured, points, sweeps, piles, last_to_pick_up,
                   point_differential, turn, round, offered, last, err,
                   q_value, q_addition, combos>>

\* where play_turn is being run from
PlayPc == {"open_play", "h1_play", "h2_play"}
ChoosePc == {"open_choose", "h1_choose", "h2_choose"}

\* action_options: the offered actions of the declared value, if one is given
DeclaredOnly(got, declared_value) ==
    IF got.raises THEN <<>>
    ELSE IF declared_value # 0
    THEN SelectSeq(got.actions, LAMBDA a : a.value = declared_value)
    ELSE got.actions

\* the outcome of get_valid_actions and the filter: the options, the error
\* and where play_turn stands
QueryOutcome(got, declared_value, at) ==
    [options |-> DeclaredOnly(got, declared_value),
     err |-> IF got.raises THEN "ValueError" ELSE "none",
     pc |-> IF got.raises THEN "crashed"
            ELSE IF at = "open_play" THEN "open_choose"
            ELSE IF at = "h1_play" THEN "h1_choose"
            ELSE "h2_choose"]

\* PlayTurnQuery with number_combinations sorting the game's table in place
\* instead of the copy it builds
PlayTurnQuery_sorts ==
    /\ pc \in PlayPc
    /\ pc = "open_play" \/ Len(hand[turn]) > 0
    /\ \E out \in {QueryOutcome(GetValidActions(hand[turn], table, piles, turn),
                                declared, pc)} :
         /\ offered' = out.options
         /\ err' = out.err
         /\ pc' = out.pc
    /\ table' = SortItems(table)
    /\ UNCHANGED <<deck, hand, captured, points, sweeps, piles, last_to_pick_up,
                   point_differential, turn, round, declared, last,
                   q_value, q_addition, combos>>

\* play_turn up to the chooser: get_valid_actions and the declared filter
PlayTurnQuery ==
    /\ pc \in PlayPc
    /\ pc = "open_play" \/ Len(hand[turn]) > 0
    /\ \E out \in {QueryOutcome(GetValidActions(hand[turn], table, piles, turn),
                                declared, pc)} :
         /\ offered' = out.options
         /\ err' = out.err
         /\ pc' = out.pc
    /\ UNCHANGED <<game_vars, declared, last, q_value, q_addition, combos>>

\* the indexes the chooser may return for n offered actions
Choices(n) == IF Len(hand[turn]) <= FreeHand THEN 1..n ELSE {1} \cap (1..n)

\* the two deals that end first_move, starting with the player who just
\* played, and the sort of both hands
DealRest(g) ==
    LET t == g.turn
        h1 == [g.hand EXCEPT ![1 - t] = @ \o Slice(g.deck, 0, 4) \o Slice(g.deck, 8, 12),
                             ![t] = @ \o Slice(g.deck, 4, 8) \o Slice(g.deck, 12, 16)]
    IN  [g EXCEPT !.hand = [p \in Players |-> SortCards(h1[p])],
                  !.deck = Slice(g.deck, 16, Len(g.deck))]

\* PlayTurnExecute with the change of turn forgotten
PlayTurnExecute_stay ==
    /\ pc \in ChoosePc
    /\ IF offered = <<>>
       THEN \* random.choice raises on an empty list; a human is asked forever
            /\ IsAI(turn)
            /\ err' = "IndexError"
            /\ pc' = "crashed"
            /\ UNCHANGED <<game_vars, declared, offered, last>>
       ELSE \E i \in Choices(Len(offered)) :
              LET action_to_play == offered[i]
                  g1 == Execute(action_to_play, Game)
                  g2 == g1
                  g3 == IF pc = "open_choose" THEN DealRest(g2) ELSE g2
                  g == IF g1.err # "none" THEN g1 ELSE g3
              IN  /\ last' = action_to_play
                  /\ deck' = g.deck
                  /\ table' = g.table
                  /\ hand' = g.hand
                  /\ captured' = g.captured
                  /\ points' = g.points
                  /\ sweeps' = g.sweeps
                  /\ piles' = g.piles
                  /\ last_to_pick_up' = g.last_to_pick_up
                  /\ turn' = g.turn
                  /\ err' = g.err
                  /\ pc' = IF g.err # "none" THEN "crashed"
                           ELSE IF pc = "h2_choose" THEN "h2_play" ELSE "h1_play"
                  /\ declared' = 0
                  /\ offered' = <<>>
                  /\ UNCHANGED <<point_differential, round>>
    /\ UNCHANGED <<q_value, q_addition, combos>>

\* play_turn from the chooser's answer on: execute and the change of turn;
\* on the opening move the rest of first_move follows
PlayTurnExecute ==
    /\ pc \in ChoosePc
    /\ IF offered = <<>>
       THEN \* random.choice raises on an empty list; a human is asked forever
            /\ IsAI(turn)
            /\ err' = "IndexError"
            /\ pc' = "crashed"
            /\ UNCHANGED <<game_vars, declared, offered, last>>
       ELSE \E i \in Choices(Len(offered)) :
              LET action_to_play == offered[i]
                  g1 == Execute(action_to_play, Game)
                  g2 == [g1 EXCEPT !.turn = 1 - g1.turn]
                  g3 == IF pc = "open_choose" THEN DealRest(g2) ELSE g2
                  g == IF g1.err # "none" THEN g1 ELSE g3
              IN  /\ last' = action_to_play
                  /\ deck' = g.deck
                  /\ table' = g.table
                  /\ hand' = g.hand
                  /\ captured' = g.captured
                  /\ points' = g.points
                  /\ sweeps' = g.sweeps
                  /\ piles' = g.piles
                  /\ last_to_pick_up' = g.last_to_pick_up
                  /\ turn' = g.turn
                  /\ err' = g.err
                  /\ pc' = IF g.err # "none" THEN "crashed"
                           ELSE IF pc = "h2_choose" THEN "h2_play" ELSE "h1_play"
                  /\ declared' = 0
                  /\ offered' = <<>>
                  /\ UNCHANGED <<point_differential, round>>
    /\ UNCHANGED <<q_value, q_addition, combos>>

\* DealSecondHalf dealing two batches of four, range(2), as first_move does
DealSecondHalf_two ==
    /\ pc = "h1_play"
    /\ Len(hand[turn]) = 0
    /\ LET h1 == [hand EXCEPT
                    ![turn] = @ \o Slice(deck, 0, 4) \o Slice(deck, 8, 12),
                    ![1 - turn] = @ \o Slice(deck, 4, 8) \o Slice(deck, 12, 16)]
       IN  /\ hand' = [p \in Players |-> SortCards(h1[p])]
           /\ deck' = Slice(deck, 16, Len(deck))
    /\ pc' = "h2_play"
    /\ UNCHANGED <<table, captured, points, sweeps, piles, last_to_pick_up,
                   point_differential, turn, round, declared, offered, last,
                   err, q_value, q_addition, combos>>

\* SweepGame.deal_second_half, run when the first loop of run_game ends
DealSecondHalf ==
    /\ pc = "h1_play"
    /\ Len(hand[turn]) = 0
    /\ LET h1 == [hand EXCEPT
                    ![turn] = @ \o Slice(deck, 0, 4) \o Slice(deck, 8, 12)
                                \o Slice(deck, 16, 20),
                    ![1 - turn] = @ \o Slice(deck, 4, 8) \o Slice(deck, 12, 16)
                                    \o Slice(deck, 20, 24)]
       IN  /\ hand' = [p \in Players |-> SortCards(h1[p])]
           /\ deck' = Slice(deck, 24, Len(deck))
    /\ pc' = "h2_play"
    /\ UNCHANGED <<table, captured, points, sweeps, piles, last_to_pick_up,
                   point_differential, turn, round, declared, offered, last,
                   err, q_value, q_addition, combos>>

\* EndRound with the leftover cards going to the player whose turn it is
EndRound_mover ==
    /\ pc = "h2_play"
    /\ Len(hand[turn]) = 0
    /\ LET attribute_error ==
               /\ table # <<>>
               /\ (last_to_pick_up = None \/ \E i \in 1..Len(table) : table[i].pile)
           leftover_points == SumCardPoints(TableCards(table))
           points1 == IF table # <<>>
                      THEN [points EXCEPT ![turn] = @ + leftover_points]
                      ELSE points
           captured1 == IF table # <<>>
                        THEN [captured EXCEPT ![turn] = @ \o TableCards(table)]
                        ELSE captured
           points2 == IF Len(captured1[0]) > 26 THEN [points1 EXCEPT ![0] = @ + 4]
                      ELSE IF Len(captured1[1]) > 26 THEN [points1 EXCEPT ![1] = @ + 4]
                      ELSE [p \in Players |-> points1[p] + 2]
           points_per_player == [p \in Players |-> points2[p] + 50 * sweeps[p]]
       IN  IF attribute_error
           THEN /\ err' = "AttributeError"
                /\ pc' = "crashed"
                /\ UNCHANGED <<points, captured, point_differential>>
           ELSE /\ err' = err
                /\ pc' = "scored"
                /\ points' = points2
                /\ captured' = captured1
                /\ point_differential' =
                       point_differential + (points_per_player[0] - points_per_player[1])
    /\ UNCHANGED <<deck, table, hand, sweeps, piles, last_to_pick_up, turn,
                   round, declared, offered, last, q_value, q_addition, combos>>

\* EndRound with the majority tested by >= 26
EndRound_half ==
    /\ pc = "h2_play"
    /\ Len(hand[turn]) = 0
    /\ LET attribute_error ==
               /\ table # <<>>
               /\ (last_to_pick_up = None \/ \E i \in 1..Len(table) : table[i].pile)
           leftover_points == SumCardPoints(TableCards(table))
           points1 == IF table # <<>>
                      THEN [points EXCEPT ![last_to_pick_up] = @ + leftover_points]
                      ELSE points
           captured1 == IF table # <<>>
                        THEN [captured EXCEPT ![last_to_pick_up] = @ \o TableCards(table)]
                        ELSE captured
           points2 == IF Len(captured1[0]) >= 26 THEN [points1 EXCEPT ![0] = @ + 4]
                      ELSE IF Len(captured1[1]) >= 26 THEN [points1 EXCEPT ![1] = @ + 4]
                      ELSE [p \in Players |-> points1[p] + 2]
           points_per_player == [p \in Players |-> points2[p] + 50 * sweeps[p]]
       IN  IF attribute_error
           THEN /\ err' = "AttributeError"
                /\ pc' = "crashed"
                /\ UNCHANGED <<points, captured, point_differential>>
           ELSE /\ err' = err
                /\ pc' = "scored"
                /\ points' = points2
                /\ captured' = captured1
                /\ point_differential' =
                       point_differential + (points_per_player[0] - points_per_player[1])
    /\ UNCHANGED <<deck, table, hand, sweeps, piles, last_to_pick_up, turn,
                   round, declared, offered, last, q_value, q_addition, combos>>

\* SweepGame.end_round, run when the second loop of run_game ends
EndRound ==
    /\ pc = "h2_play"
    /\ Len(hand[turn]) = 0
    /\ LET attribute_error ==
               /\ table # <<>>
               /\ (last_to_pick_up = None \/ \E i \in 1..Len(table) : table[i].pile)
           leftover_points == SumCardPoints(TableCards(table))
           points1 == IF table # <<>>
                      THEN [points EXCEPT ![last_to_pick_up] = @ + leftover_points]
                      ELSE points
           captured1 == IF table # <<>>
                        THEN [captured EXCEPT ![last_to_pick_up] = @ \o TableCards(table)]
                        ELSE captured
           points2 == IF Len(captured1[0]) > 26 THEN [points1 EXCEPT ![0] = @ + 4]
                      ELSE IF Len(captured1[1]) > 26 THEN [points1 EXCEPT ![1] = @ + 4]
                      ELSE [p \in Players |-> points1[p] + 2]
           points_per_player == [p \in Players |-> points2[p] + 50 * sweeps[p]]
       IN  IF attribute_error
           THEN /\ err' = "AttributeError"
                /\ pc' = "crashed"
                /\ UNCHANGED <<points, captured, point_differential>>
           ELSE /\ err' = err
                /\ pc' = "scored"
                /\ points' = points2
                /\ captured' = captured1
                /\ point_differential' =
                       point_differential + (points_per_player[0] - points_per_player[1])
    /\ UNCHANGED <<deck, table, hand, sweeps, piles, last_to_pick_up, turn,
                   round, declared, offered, last, q_value, q_addition, combos>>

Next ==
    \/ InitializeRound
    \/ FirstMove
    \/ PlayTurnQuery
    \/ PlayTurnExecute
    \/ DealSecondHalf
    \/ EndRound

Spec == Init /\ [][Next]_vars

----------------------------------------------------------------------------
(* The generator and the combination search as functions of a position:    *)
(* SpecQuery draws a table and the mover's hand from small pools and       *)
(* applies get_valid_actions and number_combinations to them               *)

\* bare cards the table is drawn from: 2h 7s 9h 9d 4s 4h 6s 6h
QTableCards == <<14, 6, 21, 34, 3, 16, 5, 18>>
\* cards the mover's hand is drawn from: Ah 4c 9s 10s
QHandCards == <<13, 42, 8, 9>>
\* the hand of the other player: 9c
QOtherHand == <<47>>
\* piles the table may hold, built by Pile.__init__ from 4d 5d (3d 6d):
\* a pile of 9 of player 0, the same pile doubled, a doubled pile of both
QPiles ==
    << Pile({0}, <<29, 30>>, 9).item,
       Pile({0}, <<29, 30, 28, 31>>, 9).item,
       Pile({0, 1}, <<29, 30, 28, 31>>, 9).item >>

\* the cards of 0..51 not in the set S, in deck order
CardsOutside(S) == SelectSeq(FreshDeck, LAMBDA c : c \notin S)

InitQuery ==
    /\ turn \in Players
    /\ \E T \in SUBSET (1..Len(QTableCards)), k \in 0..Len(QPiles),
          H \in SUBSET (1..Len(QHandCards)) :
         LET bare == Pick(QTableCards, T)
             mine == SortCards(Pick(QHandCards, H))
             n_items == Cardinality(T) + (IF k = 0 THEN 0 ELSE 1)
             creators == IF k = 0 THEN {} ELSE QPiles[k].creators
         IN  /\ n_items <= MaxQTable
             /\ Cardinality(H) \in 1..MaxQHand
             \* a creator of the pile holds a card of its value
             /\ turn \in creators => \E c \in Range(mine) : Value(c) = 9
             /\ table = [i \in 1..Len(bare) |-> CardItem(bare[i])]
                        \o (IF k = 0 THEN <<>> ELSE <<QPiles[k]>>)
             /\ piles = IF k = 0 THEN NoPiles ELSE PilesWith(NoPiles, 9, QPiles[k])
             /\ hand = [p \in Players |-> IF p = turn THEN mine ELSE QOtherHand]
    /\ deck = <<>>
    /\ captured = [p \in Players |->
                     IF p = 0
                     THEN CardsOutside(Range(TableCards(table))
                                       \cup Range(hand[0]) \cup Range(hand[1]))
                     ELSE <<>>]
    /\ points = [p \in Players |-> SumCardPoints(captured[p])]
    /\ sweeps = [p \in Players |-> 0]
    /\ last_to_pick_up = 0
    /\ point_differential = 0
    /\ round = 1
    /\ pc = "q_start"
    /\ declared = 0
    /\ offered = <<>>
    /\ last = NoAction
    /\ err = "none"
    /\ q_value = 0
    /\ q_addition = None
    /\ combos = <<>>

\* get_valid_actions() for the player to move
QueryValidActions ==
    /\ pc = "q_start"
    /\ \E got \in {GetValidActions(hand[turn], table, piles, turn)} :
         /\ offered' = got.actions
         /\ err' = IF got.raises THEN "ValueError" ELSE err
    /\ pc' = "q_offered"
    /\ UNCHANGED <<game_vars, declared, last, q_value, q_addition, combos>>

\* number_combinations(value, addition), the addition None or a hand card
QueryCombinations ==
    /\ pc = "q_start"
    /\ \E value \in 1..NumRanks, addition \in {None} \cup Range(hand[turn]) :
         /\ q_value' = value
         /\ q_addition' = addition
         /\ combos' = NumberCombinations(table, turn, value, addition)
    /\ pc' = "q_combos"
    /\ UNCHANGED <<game_vars, declared, offered, last, err>>

NextQuery ==
    \/ QueryValidActions
    \/ QueryCombinations

SpecQuery == InitQuery /\ [][NextQuery]_vars

----------------------------------------------------------------------------
(* Execution of an action the caller built: SpecSubmit draws a position as *)
(* SpecQuery does, builds an action with create_action from a hand card, a *)
(* target value and table items, and calls its execute                     *)

\* the non-empty lists of table items an action may name, in table order
ItemLists(tbl) == {Pick(tbl, A) : A \in SUBSET (1..Len(tbl)) \ {{}}}

\* create_action(kind, card, value, items).execute(game) for the player to
\* move; the fields are left as the statements before an exception left them
ExecuteSubmitted ==
    /\ pc = "q_start"
    /\ \E kind \in {ActionType.PICK_UP, ActionType.PILE_ON, ActionType.THROW},
          card \in Range(hand[turn]), value \in 9..NumRanks,
          items \in ItemLists(table) :
         \* PickUpAction and ThrowAction ignore the value, ThrowAction the items
         /\ kind # ActionType.PILE_ON => value = 9
         /\ kind = ActionType.THROW => items = <<table[1]>>
         /\ ~CreateRaises(kind, items)
         /\ \E g \in {Execute(CreateAction(kind, card, value, items), Game)} :
              /\ last' = CreateAction(kind, card, value, items)
              /\ deck' = g.deck
              /\ table' = g.table
              /\ hand' = g.hand
              /\ captured' = g.captured
              /\ points' = g.points
              /\ sweeps' = g.sweeps
              /\ piles' = g.piles
              /\ last_to_pick_up' = g.last_to_pick_up
              /\ err' = g.err
              /\ pc' = IF g.err # "none" THEN "crashed" ELSE "x_done"
    /\ UNCHANGED <<point_differential, turn, round, declared, offered,
                   q_value, q_addition, combos>>

NextSubmit == ExecuteSubmitted

SpecSubmit == InitQuery /\ [][NextSubmit]_vars

-----------------------------------------------------------------------------
(* The opening move as a function of the deal: SpecOpening draws the four   *)
(* table cards and the opener's four cards from small pools, the rest of    *)
(* the shuffled deck in deck order, and runs the play_turn of first_move    *)

\* cards the opening table is drawn from: 4s 5s Ah 6h 3d 9d 10d
OTableCards == <<3, 4, 13, 18, 28, 34, 35>>
\* cards the opener's hand is drawn from: 9s 10s Ks 9h 4d Ac
OHandCards == <<8, 9, 12, 21, 29, 39>>

\* a deck order random.shuffle may leave: the table cards at deck[0:4], the
\* opener's cards at deck[4:8], the other cards behind them
OpeningDeck(T, H) ==
    LET first == Pick(OTableCards, T) \o Pick(OHandCards, H)
    IN  first \o CardsOutside(Range(first))

\* the state first_move is in when it calls play_turn(declared_value)
InitOpening ==
    /\ turn \in Players
    /\ \E T \in SUBSET (1..Len(OTableCards)), H \in SUBSET (1..Len(OHandCards)) :
         LET shuffled == OpeningDeck(T, H)
             opener == SortCards(Slice(shuffled, 4, 8))
             deck1 == Slice(shuffled, 0, 4) \o Slice(shuffled, 8, NumCards)
         IN  /\ Cardinality(T) = 4
             /\ Cardinality(H) = 4
             /\ \E c \in Range(Slice(shuffled, 4, 8)) : Value(c) >= 9
             /\ declared \in DeclareChoices(opener, turn)
             /\ table = [i \in 1..4 |-> CardItem(deck1[i])]
             /\ hand = [p \in Players |->
                          IF p = turn THEN opener ELSE Slice(deck1, 4, 8)]
             /\ deck = Slice(deck1, 8, Len(deck1))
    /\ captured = [p \in Players |-> <<>>]
    /\ points = [p \in Players |-> 0]
    /\ sweeps = [p \in Players |-> 0]
    /\ piles = NoPiles
    /\ last_to_pick_up = None
    /\ point_differential = 0
    /\ round = 1
    /\ pc = "open_play"
    /\ offered = <<>>
    /\ last = NoAction
    /\ err = "none"
    /\ q_value = 0
    /\ q_addition = None
    /\ combos = <<>>

\* play_turn(declared_value) up to the choice of the action
OpeningQuery ==
    /\ pc = "open_play"
    /\ PlayTurnQuery

\* the rest of play_turn and of first_move: the chosen action and the deal
OpeningExecute ==
    /\ pc = "open_choose"
    /\ PlayTurnExecute

NextOpening ==
    \/ OpeningQuery
    \/ OpeningExecute

SpecOpening == InitOpening /\ [][NextOpening]_vars

----------------------------------------------------------------------------
(* Properties *)

\* the states in which a round is being played
InPlay == pc \in PlayPc \cup ChoosePc

TablePiles == {table[i] : i \in {j \in 1..Len(table) : table[j].pile}}

\* C1: the pile index and the table agree: every pile of game.piles is on
\* the table under its own value as key, every pile on the table is the
\* entry of game.piles at its value, and no two piles on the table have the
\* same value
C1_PileIndexAgrees ==
    /\ \A v \in DOMAIN piles :
         /\ piles[v].pile
         /\ piles[v].value = v
         /\ piles[v] \in TablePiles
    /\ \A x \in TablePiles :
         /\ x.value \in DOMAIN piles
         /\ piles[x.value] = x
    /\ \A i, j \in 1..Len(table) :
         (i # j /\ table[i].pile /\ table[j].pile) => table[i].value # table[j].value

\* a pile-on that consumed a pile has just run and two piles are indexed
C1_Witness ==
    /\ last.action_type = ActionType.PILE_ON
    /\ \E i \in 1..Len(last.other_cards) : last.other_cards[i].pile
    /\ Cardinality(DOMAIN piles) = 2
    /\ pc \in PlayPc

\* every card of the round, place by place
AllCards ==
    deck \o hand[0] \o hand[1] \o TableCards(table) \o captured[0] \o captured[1]

\* C2: from first_move to the last executed action the 52 cards are
\* partitioned among the deck, the two hands, the table (bare cards and the
\* cards inside piles) and the two captured lists
C2_CardsPartitioned ==
    InPlay => /\ Len(AllCards) = NumCards
              /\ Range(AllCards) = 0..(NumCards - 1)

\* the second half is being played, both players have captured cards, a
\* pile lies on the table and a throw has just run
C2_Witness ==
    /\ pc = "h2_play"
    /\ captured[0] # <<>> /\ captured[1] # <<>>
    /\ TablePiles # {}
    /\ last.action_type = ActionType.THROW

\* the actions of one kind offered for a card
ActionsOf(acts, kind, card) ==
    {i \in 1..Len(acts) : acts[i].action_type = kind /\ acts[i].played_card = card}

\* C3: whenever the player to move holds a card, get_valid_actions returns
\* an action, and a card locked as the only key to a pile of the mover has a
\* PickUp
C3_SomeActionOffered ==
    (pc \in PlayPc /\ hand[turn] # <<>>) =>
        LET acts == GetValidActions(hand[turn], table, piles, turn).actions
        IN  /\ acts # <<>>
            /\ \A c \in Range(hand[turn]) :
                 Locked(hand[turn], piles, turn, c) =>
                     ActionsOf(acts, ActionType.PICK_UP, c) # {}

\* the mover's only card is locked
C3_Witness ==
    /\ pc \in PlayPc
    /\ Len(hand[turn]) = 1
    /\ Locked(hand[turn], piles, turn, hand[turn][1])

\* the cards a pile-on accumulates
PileOnCards(a) ==
    <<a.played_card>> \o ConcatAll([i \in 1..Len(a.other_cards) |-> a.other_cards[i].cards])

\* C4: executing an offered action in the state it was generated for never
\* fails: the played card is in the mover's hand, every consumed item is on
\* the table, every consumed pile is in the pile index under its value, a
\* pile-on's cards sum to a multiple of its value, and no call raises
C4_ExecuteNeverFails ==
    /\ err = "none"
    /\ pc # "crashed"
    /\ pc \in ChoosePc =>
         \A k \in 1..Len(offered) :
           LET a == offered[k]
           IN  /\ a.played_card \in Range(hand[turn])
               /\ \A i \in 1..Len(a.other_cards) :
                    LET item == a.other_cards[i]
                    IN  /\ item \in Range(table)
                        /\ item.pile => /\ item.value \in DOMAIN piles
                                        /\ piles[item.value] = item
               /\ a.action_type = ActionType.PILE_ON =>
                    SumCardValues(PileOnCards(a)) % a.value = 0
               /\ Execute(a, Game).err = "none"

\* a pile-on that consumed a pile of another value has just run
C4_Witness ==
    /\ last.action_type = ActionType.PILE_ON
    /\ \E i \in 1..Len(last.other_cards) :
         last.other_cards[i].pile /\ last.other_cards[i].value # last.value
    /\ err = "none"
    /\ pc \in PlayPc

\* C5: every pile on the table has cards whose values sum to a positive
\* multiple of the pile's value, its doubled flag is set exactly when the
\* sum is at least twice the value, and Pile.__init__ raises for cards whose
\* sum is no multiple of the value (tried on the prefixes of the mover's hand)
C5_PileInvariant ==
    /\ \A x \in TablePiles :
         LET sum == SumCardValues(x.cards)
         IN  /\ sum > 0
             /\ sum % x.value = 0
             /\ x.doubled <=> sum >= 2 * x.value
    /\ InPlay =>
         \A v \in 9..13, k \in 0..Len(hand[turn]) :
           LET cards == SubSeq(hand[turn], 1, k)
           IN  Pile({turn}, cards, v).ok <=> SumCardValues(cards) % v = 0

\* a doubled pile and a pile that is not doubled lie on the table
C5_Witness ==
    /\ \E x, y \in TablePiles : x.doubled /\ ~y.doubled
    /\ pc \in PlayPc

----------------------------------------------------------------------------
(* Properties of the generator's output *)

\* the sample position: table 2h 7s 9h 9d, the mover holds 9s, queried
C6_Scenario ==
    /\ pc = "q_offered"
    /\ table = <<CardItem(14), CardItem(6), CardItem(21), CardItem(34)>>
    /\ hand[turn] = <<8>>

\* C6 as stated: three PickUp actions for 9s, consuming {9h}, {9d} and
\* {2h, 7s}, and no Throw
C6_ThreePickUps ==
    C6_Scenario =>
        LET picks == ActionsOf(offered, ActionType.PICK_UP, 8)
        IN  /\ Cardinality(picks) = 3
            /\ {Range(offered[i].other_cards) : i \in picks}
                   = {{CardItem(21)}, {CardItem(34)}, {CardItem(14), CardItem(6)}}
            /\ ActionsOf(offered, ActionType.THROW, 8) = {}

\* C6 amended: with table 2h 7s 9h 9d and hand 9s, get_valid_actions offers
\* one PickUp for 9s, which consumes 2h, 7s, 9h and 9d together, and nothing
\* else (so no Throw)
C6_OnePickUpOfAll ==
    C6_Scenario =>
        offered = <<CreateAction(ActionType.PICK_UP, 8, 9,
                        <<CardItem(14), CardItem(6), CardItem(21), CardItem(34)>>)>>

\* the sample position was queried
C6_Witness == C6_Scenario /\ offered # <<>>

\* position of a card in the mover's hand
HandIndex(c) == IndexOf(hand[turn], c)

\* C7 as stated: the offered list is ordered by kind, PickUp before PileOn
\* before Throw, and within a kind by the order of the hand
C7_OrderedByKind ==
    pc \in ChoosePc =>
        \A i, j \in 1..Len(offered) :
            i < j => /\ offered[i].action_type <= offered[j].action_type
                     /\ offered[i].action_type = offered[j].action_type =>
                            HandIndex(offered[i].played_card) <= HandIndex(offered[j].played_card)

\* the consumed lists of the actions of one kind, card and value, in order
GroupsOffered(kind, card, v) ==
    LET sel == SelectSeq(offered, LAMBDA a : /\ a.action_type = kind
                                             /\ a.played_card = card
                                             /\ a.value = v)
    IN  [k \in 1..Len(sel) |-> sel[k].other_cards]

\* C7 amended: the offered list is ordered by hand card, the actions of an
\* earlier card of the hand before those of a later one; among the actions
\* of one card PickUp comes before PileOn before Throw, the PileOn actions
\* by ascending target value; within one card, kind and value the order is
\* that of the groups number_combinations returned
C7_OrderedByCard ==
    pc \in ChoosePc =>
        /\ \A i, j \in 1..Len(offered) :
             i < j =>
               /\ HandIndex(offered[i].played_card) <= HandIndex(offered[j].played_card)
               /\ offered[i].played_card = offered[j].played_card =>
                    /\ offered[i].action_type <= offered[j].action_type
                    /\ offered[i].action_type = offered[j].action_type =>
                         offered[i].value <= offered[j].value
        /\ \A c \in Range(hand[turn]) :
             /\ declared \in {0, Value(c)} =>
                  GroupsOffered(ActionType.PICK_UP, c, Value(c))
                      = NumberCombinations(table, turn, Value(c), None)
             /\ \A v \in 9..13 :
                  LET found == NumberCombinations(table, turn, v, c)
                      groups == GroupsOffered(ActionType.PILE_ON, c, v)
                  IN  groups # <<>> =>
                        groups = [k \in 1..Len(found) |-> ListRemove(found[k], CardItem(c))]

\* a Throw is offered ahead of a PickUp, and one card has a PickUp and two
\* PileOn actions
C7_Witness ==
    /\ pc \in ChoosePc
    /\ \E i, j \in 1..Len(offered) :
         /\ i < j
         /\ offered[i].action_type = ActionType.THROW
         /\ offered[j].action_type = ActionType.PICK_UP
    /\ \E c \in Range(hand[turn]) :
         /\ ActionsOf(offered, ActionType.PICK_UP, c) # {}
         /\ Cardinality(ActionsOf(offered, ActionType.PILE_ON, c)) >= 2

RECURSIVE SumItems(_)
\* the sum of the values of a set of items
SumItems(S) ==
    IF S = {} THEN 0
    ELSE LET x == CHOOSE x \in S : TRUE IN x.value + SumItems(S \ {x})

RECURSIVE CanSplit(_, _)
\* the items of S split into disjoint groups that each sum to v
CanSplit(S, v) ==
    \/ S = {}
    \/ LET x == CHOOSE x \in S : TRUE
       IN  \E G \in SUBSET S : /\ x \in G
                               /\ SumItems(G) = v
                               /\ CanSplit(S \ G, v)

\* C8: a combination returned by number_combinations(value, addition) holds
\* no item twice; its items of a value other than the target split into
\* disjoint groups that each sum to the target; and an addition of a value
\* below the target is in every combination
C8_CombinationsSplit ==
    pc = "q_combos" =>
        \A k \in 1..Len(combos) :
            LET combo == combos[k]
            IN  /\ \A i, j \in 1..Len(combo) : i # j => combo[i] # combo[j]
                /\ CanSplit({x \in Range(combo) : x.value # q_value}, q_value)
                /\ (q_addition # None /\ Value(q_addition) < q_value) =>
                       CardItem(q_addition) \in Range(combo)

\* a search with an addition below the target returned a combination of two
\* groups
C8_Witness ==
    /\ pc = "q_combos"
    /\ q_addition # None
    /\ Value(q_addition) < q_value
    /\ \E k \in 1..Len(combos) : Len(combos[k]) >= 5

\* C9: a combination returned by number_combinations is maximal: no subset
\* of the candidate pool (the addition included) sums to the target and is
\* disjoint from the items of the combination
C9_CombinationsMaximal ==
    pc = "q_combos" =>
        LET search == SearchList(table, turn, q_value, q_addition)
        IN  \A k \in 1..Len(combos) :
                ~ \E A \in SUBSET (1..Len(search)) :
                      /\ A # {}
                      /\ SumAt(search, A) = q_value
                      /\ {search[i] : i \in A} \cap Range(combos[k]) = {}

\* a search returned two combinations, so each leaves groups out that the
\* other takes
C9_Witness ==
    /\ pc = "q_combos"
    /\ Len(combos) >= 2
    /\ \E k \in 1..Len(combos) : Len(combos[k]) >= 4

\* C10: a Throw is offered for a hand card exactly when no PickUp is offered
\* for it, it is not locked as the only key to a pile of the mover, and no
\* PileOn was found for it onto a value at which the mover already has a
\* pile; the Throw carries the card's value and no other cards
C10_ThrowExactlyWhen ==
    pc \in ChoosePc =>
        LET acts == IF declared = 0 THEN offered
                    ELSE GetValidActions(hand[turn], table, piles, turn).actions
        IN  \A c \in Range(hand[turn]) :
              /\ ActionsOf(acts, ActionType.THROW, c) # {} <=>
                   /\ ActionsOf(acts, ActionType.PICK_UP, c) = {}
                   /\ ~Locked(hand[turn], piles, turn, c)
                   /\ ~ \E i \in ActionsOf(acts, ActionType.PILE_ON, c) :
                          /\ acts[i].value \in DOMAIN piles
                          /\ turn \in piles[acts[i].value].creators
              /\ \A i \in ActionsOf(acts, ActionType.THROW, c) :
                   /\ acts[i].value = Value(c)
                   /\ acts[i].other_cards = <<>>

\* one card of the hand may be thrown and another may not, as a PileOn onto
\* the mover's own pile was found for it and no PickUp
C10_Witness ==
    /\ pc \in {"h1_choose", "h2_choose"}
    /\ \E c, d \in Range(hand[turn]) :
         /\ ActionsOf(offered, ActionType.THROW, c) # {}
         /\ ActionsOf(offered, ActionType.THROW, d) = {}
         /\ ActionsOf(offered, ActionType.PICK_UP, d) = {}
         /\ ~Locked(hand[turn], piles, turn, d)

\* C11: every PileOn offered has a target value in 9..13 of which the mover
\* holds a hand card other than the played one, and a non-empty list of
\* consumed items; every pile on the table has a value in 9..13; right after
\* a PileOn the player who made it still holds a card of the pile's value
C11_PileOnKeyHeld ==
    /\ pc \in ChoosePc =>
         \A i \in 1..Len(offered) :
            offered[i].action_type = ActionType.PILE_ON =>
               /\ offered[i].value \in 9..13
               /\ \E c \in Range(hand[turn]) \ {offered[i].played_card} :
                     Value(c) = offered[i].value
               /\ offered[i].other_cards # <<>>
    /\ InPlay => \A p \in TablePiles : p.value \in 9..13
    /\ (pc \in {"h1_play", "h2_play"} /\ last.action_type = ActionType.PILE_ON) =>
         /\ last.value \in DOMAIN piles
         /\ \E c \in Range(hand[1 - turn]) : Value(c) = last.value

\* a PileOn was just executed and its pile stands on the table
C11_Witness ==
    /\ pc = "h1_play"
    /\ last.action_type = ActionType.PILE_ON
    /\ last.value \in DOMAIN piles
    /\ 1 - turn \in piles[last.value].creators

\* the step is an execution of play_turn's chosen action, of the given kind
Executed(kind) ==
    /\ pc \in ChoosePc
    /\ pc' \in PlayPc
    /\ last'.action_type = kind

\* C12: a PickUp takes the played card out of the mover's hand and every
\* consumed item off the table (a consumed pile also out of the pile index),
\* appends the played card and all consumed cards, those inside piles too,
\* to the mover's captured list, adds the sum of their point values to the
\* mover's points and makes the mover last_to_pick_up; the opponent's hand,
\* captured list, points and sweeps stay as they were (on the opening move
\* the deal that ends first_move then adds eight cards to each hand)
C12_PickUpEffects ==
    [][Executed(ActionType.PICK_UP) =>
        LET a == last'
            mover == turn
            taken == <<a.played_card>> \o TableCards(a.other_cards)
        IN  /\ a \in Range(offered)
            /\ a.played_card \in Range(hand[mover])
            /\ a.played_card \notin Range(hand'[mover])
            /\ IF pc = "open_choose"
               THEN /\ Range(hand[mover]) \ {a.played_card} \subseteq Range(hand'[mover])
                    /\ Range(hand[1 - mover]) \subseteq Range(hand'[1 - mover])
                    /\ Len(hand'[mover]) = Len(hand[mover]) + 7
                    /\ Len(hand'[1 - mover]) = Len(hand[1 - mover]) + 8
               ELSE /\ hand'[mover] = ListRemove(hand[mover], a.played_card)
                    /\ hand'[1 - mover] = hand[1 - mover]
            /\ table' = SelectSeq(table, LAMBDA x : x \notin Range(a.other_cards))
            /\ Len(table') = Len(table) - Len(a.other_cards)
            /\ DOMAIN piles' = DOMAIN piles \
                   {x.value : x \in {y \in Range(a.other_cards) : y.pile}}
            /\ \A v \in DOMAIN piles' : piles'[v] = piles[v]
            /\ captured'[mover] = captured[mover] \o taken
            /\ points'[mover] = points[mover] + SumCardPoints(taken)
            /\ last_to_pick_up' = mover
            /\ captured'[1 - mover] = captured[1 - mover]
            /\ points'[1 - mover] = points[1 - mover]
            /\ sweeps'[1 - mover] = sweeps[1 - mover]]_vars

\* a PickUp that consumed a pile was just executed
C12_Witness ==
    /\ pc \in PlayPc
    /\ last.action_type = ActionType.PICK_UP
    /\ \E x \in Range(last.other_cards) : x.pile /\ Len(x.cards) >= 2
    /\ last_to_pick_up = 1 - turn

\* C13: execute is atomic: a call that fails, as a PileOn does whose
\* accumulated cards do not sum to a multiple of the declared value, leaves
\* the mover's hand, the table and the pile index as they were before it
C13_ExecuteAtomic ==
    [][(pc = "q_start" /\ err' # "none") =>
           /\ hand' = hand
           /\ table' = table
           /\ piles' = piles]_vars

RoundEnds == pc = "h2_play" /\ pc' \in {"scored", "crashed"}

\* the card-count bonus end_round adds to player p, read from the captured
\* lists it leaves
Bonus(p) ==
    IF Len(captured'[0]) > 26 THEN (IF p = 0 THEN 4 ELSE 0)
    ELSE IF Len(captured'[1]) > 26 THEN (IF p = 1 THEN 4 ELSE 0)
    ELSE 2

\* C15: when end_round runs with a non-empty table, the player recorded as
\* last_to_pick_up gains the sum of the point values of the cards left on
\* the table and those cards join that player's captured list; the other
\* player's points and captured list are not changed by this step (the
\* card-count bonus follows it)
C15_LeftoversToLastPicker ==
    [][(RoundEnds /\ table # <<>>) =>
           /\ pc' = "scored"
           /\ last_to_pick_up \in Players
           /\ captured'[last_to_pick_up] =
                  captured[last_to_pick_up] \o TableCards(table)
           /\ points'[last_to_pick_up] - Bonus(last_to_pick_up) =
                  points[last_to_pick_up] + SumCardPoints(TableCards(table))
           /\ captured'[1 - last_to_pick_up] = captured[1 - last_to_pick_up]
           /\ points'[1 - last_to_pick_up] - Bonus(1 - last_to_pick_up) =
                  points[1 - last_to_pick_up]]_vars

\* a round was scored with cards worth points left on the table, the last to
\* pick up not being the player whose turn it was
C15_Witness ==
    /\ pc = "scored"
    /\ table # <<>>
    /\ SumCardPoints(TableCards(table)) > 0
    /\ last_to_pick_up # turn

\* what end_round adds to the points of player p beyond the leftover cards
BonusGain(p) ==
    points'[p] - points[p]
        - (IF table # <<>> /\ p = last_to_pick_up
           THEN SumCardPoints(TableCards(table)) ELSE 0)

\* C16: at round scoring a player with more than 26 captured cards gains 4
\* points and the other player none, otherwise each gains 2: the bonus
\* totals 4, and the two captured lists together hold the 52 cards
C16_CardCountBonus ==
    [][(RoundEnds /\ pc' = "scored") =>
           /\ Len(captured'[0]) + Len(captured'[1]) = NumCards
           /\ \A p \in Players :
                Len(captured'[p]) > 26 => BonusGain(p) = 4 /\ BonusGain(1 - p) = 0
           /\ (\A p \in Players : Len(captured'[p]) <= 26) =>
                BonusGain(0) = 2 /\ BonusGain(1) = 2
           /\ BonusGain(0) + BonusGain(1) = 4]_vars

\* a round was scored with 26 cards captured by each player
C16_Witness ==
    /\ pc = "scored"
    /\ Len(captured[0]) = 26
    /\ Len(captured[1]) = 26

\* the step is initialize_round for a round that follows a scored one
NextRoundSetUp == pc = "scored" /\ pc' = "next_round"

\* the round total of player p as end_round computes it from the state it
\* leaves: the points plus 50 per sweep
RoundTotal(p) == points'[p] + 50 * sweeps'[p]

\* the differential grows by player 0's round total minus player 1's
DifferentialCarried ==
    (RoundEnds /\ pc' = "scored") =>
        point_differential' = point_differential + RoundTotal(0) - RoundTotal(1)

\* C17 as stated: a negative carried differential makes player 0 open the
\* next round, a positive one player 1, a zero one leaves the opener as is
C17_BehindOpens ==
    [][/\ DifferentialCarried
       /\ NextRoundSetUp =>
            /\ point_differential < 0 => turn' = 0
            /\ point_differential > 0 => turn' = 1
            /\ point_differential = 0 => turn' = turn]_vars

\* C17, amended: the carried differential (player 0's round total minus
\* player 1's, a round total being points plus 50 per sweep) decides who
\* opens the next round: a negative differential makes player 1 open, a
\* positive one player 0, and a zero one leaves the opener as is
C17_AheadOpens ==
    [][/\ DifferentialCarried
       /\ NextRoundSetUp =>
            /\ point_differential < 0 => turn' = 1
            /\ point_differential > 0 => turn' = 0
            /\ point_differential = 0 => turn' = turn
            /\ point_differential' = point_differential]_vars

\* a second round was set up with player 0 behind and player 1 to open
C17_Witness ==
    /\ pc = "next_round"
    /\ round = 2
    /\ point_differential < 0
    /\ turn = 1

\* max(card.value for card in the hand of the player to move)
MaxHandValue == CHOOSE m \in {Value(c) : c \in Range(hand[turn])} :
                    \A c \in Range(hand[turn]) : Value(c) <= m

\* the opening play_turn offers the generated actions of the declared value,
\* and only those
OpeningOffersDeclared ==
    pc = "open_choose" =>
        /\ \A i \in 1..Len(offered) : offered[i].value = declared
        /\ offered = SelectSeq(GetValidActions(hand[turn], table, piles, turn).actions,
                               LAMBDA a : a.value = declared)

\* C18 as stated: in first_move the declared value is the maximum card value
\* of the opener's four-card hand and lies in 9..13, and the opening
\* play_turn offers only the generated actions of the declared value
C18_DeclaresMaximum ==
    /\ pc \in {"open_play", "open_choose"} =>
         /\ Len(hand[turn]) = 4
         /\ declared = MaxHandValue
         /\ declared \in 9..13
    /\ OpeningOffersDeclared

\* C18, amended: the declared value is the value of a card of the opener's
\* four-card hand and lies in 9..13; it is the maximum card value of the hand
\* when the opener is the AI player, and any held value of 9 or more when the
\* opener is the human player; the opening play_turn offers only the
\* generated actions of the declared value
C18_DeclaresHeldValue ==
    /\ pc \in {"open_play", "open_choose"} =>
         /\ Len(hand[turn]) = 4
         /\ \E c \in Range(hand[turn]) : Value(c) = declared
         /\ declared \in 9..13
         /\ IsAI(turn) => declared = MaxHandValue
    /\ OpeningOffersDeclared

\* the human player opened, declared less than the highest card held, and
\* the filter dropped generated actions of other values
C18_Witness ==
    /\ pc = "open_choose"
    /\ ~IsAI(turn)
    /\ declared < MaxHandValue
    /\ offered # <<>>
    /\ Len(offered) < Len(GetValidActions(hand[turn], table, piles, turn).actions)

\* cards remain to be played once the card about to be played has left the
\* mover's hand: the deck or a hand is not empty
CardsRemain ==
    \/ Len(deck) > 0
    \/ Len(hand[turn]) > 1
    \/ Len(hand[1 - turn]) > 0

\* C19: a PickUp adds one to the mover's sweeps exactly when it leaves the
\* table empty and cards remain to be played; a capture that empties the
\* table with the deck and both hands empty awards no sweep; PileOn and
\* Throw change no sweep counter
C19_SweepOnlyWithCardsLeft ==
    [][/\ Executed(ActionType.PICK_UP) =>
            /\ sweeps'[turn] =
                   sweeps[turn] + (IF table' = <<>> /\ CardsRemain THEN 1 ELSE 0)
            /\ sweeps'[1 - turn] = sweeps[1 - turn]
       /\ (Executed(ActionType.PILE_ON) \/ Executed(ActionType.THROW)) =>
            sweeps' = sweeps]_vars

\* the last card of the round captured all that lay on the table and no
\* sweep was awarded for it
C19_Witness ==
    /\ pc = "h2_play"
    /\ last.action_type = ActionType.PICK_UP
    /\ table = <<>>
    /\ deck = <<>>
    /\ \A p \in Players : hand[p] = <<>>
    /\ sweeps[1 - turn] = 0

\* the card is the mover's only hand card of the value of a pile the mover
\* created
OnlyKeyToOwnPile(c) ==
    /\ c \in Range(hand[turn])
    /\ \E p \in TablePiles : p.value = Value(c) /\ turn \in p.creators
    /\ \A d \in Range(hand[turn]) : d # c => Value(d) # Value(c)

\* C20: for a hand card of the value of a pile the mover created, no other
\* card of the hand having that value, get_valid_actions returns PickUp
\* actions only: no PileOn and no Throw
C20_KeyCardOnlyPicksUp ==
    pc \in ChoosePc =>
        \A c \in Range(hand[turn]) :
            OnlyKeyToOwnPile(c) =>
                \A i \in 1..Len(offered) :
                    offered[i].played_card = c =>
                        offered[i].action_type = ActionType.PICK_UP

\* a card of the hand is the only key to the mover's pile and is offered for
\* a PickUp, while another card of the hand is offered for something else
C20_Witness ==
    /\ pc \in ChoosePc
    /\ \E c \in Range(hand[turn]) :
         /\ OnlyKeyToOwnPile(c)
         /\ ActionsOf(offered, ActionType.PICK_UP, c) # {}
    /\ \E i \in 1..Len(offered) : offered[i].action_type # ActionType.PICK_UP

\* C21: a pile of a value below the target takes part in number_combinations
\* only when an addition is supplied, the pile is not doubled and the player
\* to move is not among its creators; hence a PickUp consumes no pile of a
\* value other than the played card's, and a PileOn consumes no lower-valued
\* pile that is doubled or that the mover created
C21_LowerPileEligibility ==
    /\ pc = "q_combos" =>
         \A k \in 1..Len(combos) : \A x \in Range(combos[k]) :
            (x.pile /\ x.value # q_value) =>
               /\ x.value < q_value
               /\ q_addition # None
               /\ ~x.doubled
               /\ turn \notin x.creators
    /\ pc = "q_offered" =>
         \A i \in 1..Len(offered) : \A x \in Range(offered[i].other_cards) :
            /\ (offered[i].action_type = ActionType.PICK_UP /\ x.pile) =>
                  x.value = Value(offered[i].played_card)
            /\ (offered[i].action_type = ActionType.PILE_ON /\ x.pile
                  /\ x.value # offered[i].value) =>
                  /\ x.value < offered[i].value
                  /\ ~x.doubled
                  /\ turn \notin x.creators

\* a PileOn is offered that consumes a pile of a lower value, which the
\* other player created and which is not doubled
C21_Witness ==
    /\ pc = "q_offered"
    /\ \E i \in 1..Len(offered) : \E x \in Range(offered[i].other_cards) :
         /\ offered[i].action_type = ActionType.PILE_ON
         /\ x.pile
         /\ x.value < offered[i].value

\* C22: after a PileOn at value v the table holds exactly one pile of value
\* v; its cards are the played card and all consumed cards, its creators the
\* mover and the creators of the pile of value v that was consumed, if any;
\* creators of consumed piles of another value are not taken over, and no
\* player's points, captured list or last_to_pick_up changes
C22_PileOnEffects ==
    [][Executed(ActionType.PILE_ON) =>
        LET a == last'
            v == last'.value
            same == {x \in Range(a.other_cards) : x.pile /\ x.value = v}
        IN  /\ a \in Range(offered)
            /\ v \in DOMAIN piles'
            /\ Cardinality({j \in 1..Len(table') :
                               table'[j].pile /\ table'[j].value = v}) = 1
            /\ table'[Len(table')] = piles'[v]
            /\ piles'[v].cards = <<a.played_card>> \o TableCards(a.other_cards)
            /\ piles'[v].creators = {turn} \cup UNION {x.creators : x \in same}
            /\ points' = points
            /\ captured' = captured
            /\ last_to_pick_up' = last_to_pick_up]_vars

\* a PileOn was just executed that absorbed a pile of a lower value made by
\* the other player, whose creators the new pile did not take over
C22_Witness ==
    /\ pc \in PlayPc
    /\ last.action_type = ActionType.PILE_ON
    /\ last.value \in DOMAIN piles
    /\ piles[last.value].creators = {1 - turn}
    /\ \E x \in Range(last.other_cards) :
         x.pile /\ x.value # last.value /\ turn \in x.creators

\* the table items of value v, piles included
ItemsOfValue(v) == {x \in Range(table) : x.value = v}

\* C23: every combination number_combinations returns contains every table
\* item of the target value, a pile of that value included, whoever created
\* it and doubled or not; so a PickUp offered for a card of value v captures
\* all table items of value v and a PileOn at v absorbs the pile of value v;
\* with no addition the result is non-empty when a table item has the target
\* value
C23_EqualitiesAlwaysTaken ==
    /\ pc = "q_combos" =>
         /\ \A k \in 1..Len(combos) : ItemsOfValue(q_value) \subseteq Range(combos[k])
         /\ (q_addition = None /\ ItemsOfValue(q_value) # {}) => combos # <<>>
    /\ pc = "q_offered" =>
         \A i \in 1..Len(offered) :
            /\ offered[i].action_type = ActionType.PICK_UP =>
                  ItemsOfValue(Value(offered[i].played_card))
                      \subseteq Range(offered[i].other_cards)
            /\ offered[i].action_type = ActionType.PILE_ON =>
                  ItemsOfValue(offered[i].value) \subseteq Range(offered[i].other_cards)

\* a PickUp is offered that takes a group summing to the card's value
\* together with a doubled pile and a bare card of that value
C23_Witness ==
    /\ pc = "q_offered"
    /\ \E i \in 1..Len(offered) :
         /\ offered[i].action_type = ActionType.PICK_UP
         /\ \E x, y, z \in Range(offered[i].other_cards) :
              /\ x.pile /\ x.doubled
              /\ ~y.pile /\ y.value = x.value
              /\ z.value < x.value

\* the step is the part of play_turn that follows the choice
Played == pc \in ChoosePc /\ pc' \in PlayPc

\* C24: turns alternate: each play_turn executes one action for the player
\* whose index is turn, takes the played card and no other out of that
\* player's hand, leaves the opponent's hand as it was (on the opening move
\* the deal that ends first_move then adds eight cards to each hand), and
\* sets turn to the other player; no other step of a round changes turn
C24_TurnsAlternate ==
    [][/\ Played =>
            /\ turn' = 1 - turn
            /\ last' \in Range(offered)
            /\ last'.played_card \in Range(hand[turn])
            /\ last'.played_card \notin Range(hand'[turn])
            /\ IF pc = "open_choose"
               THEN /\ Range(hand[turn]) \ {last'.played_card} \subseteq Range(hand'[turn])
                    /\ Range(hand[1 - turn]) \subseteq Range(hand'[1 - turn])
                    /\ Len(hand'[turn]) = Len(hand[turn]) + 7
                    /\ Len(hand'[1 - turn]) = Len(hand[1 - turn]) + 8
               ELSE /\ hand'[turn] = ListRemove(hand[turn], last'.played_card)
                    /\ hand'[1 - turn] = hand[1 - turn]
       /\ (~Played /\ pc \in PlayPc \cup ChoosePc \cup {"first_move"}) =>
            turn' = turn]_vars

\* in the second half the player who moved last holds one card fewer than
\* the player to move
C24_Witness ==
    /\ pc = "h2_play"
    /\ last.action_type = ActionType.THROW
    /\ Len(hand[1 - turn]) + 1 = Len(hand[turn])
    /\ Len(hand[turn]) >= 2

\* the cards still to be played: those in the deck and in the two hands
CardsToPlay == Len(deck) + Len(hand[0]) + Len(hand[1])

\* the steps run_game has left before the round is scored: a query and an
\* execution for every card still to be played, the second deal, end_round
StepsLeft ==
    IF pc = "scored" THEN 0
    ELSE 2 * CardsToPlay
         - (IF pc \in ChoosePc THEN 1 ELSE 0)
         + (IF pc \in {"open_play", "open_choose", "h1_play", "h1_choose"} THEN 1 ELSE 0)
         + 1

\* the phases of a round in order: 48 cards to play after the opening deal,
\* one fewer with every executed action, the second deal with both hands
\* empty and 24 cards in the deck giving 12 to each player, and end_round
\* with the hands and the deck empty
PhasesInOrder ==
    /\ (pc = "first_move" /\ pc' = "open_play") =>
            CardsToPlay' = 48 /\ Len(table') = 4 /\ StepsLeft' = 98
    /\ Played => CardsToPlay' = CardsToPlay - 1
    /\ (pc = "h1_play" /\ pc' = "h2_play") =>
            /\ \A p \in Players : hand[p] = <<>>
            /\ Len(deck) = 24
            /\ \A p \in Players : Len(hand'[p]) = 12
            /\ deck' = <<>>
    /\ RoundEnds =>
            /\ \A p \in Players : hand[p] = <<>>
            /\ deck = <<>>

\* C25: a round terminates and passes its phases in order: with the chooser
\* picking from the offered list run_game reaches end_round after exactly 48
\* executed actions; first-half play ends with both hands empty and 24 cards
\* in the deck, the second deal gives 12 cards to each player, and
\* second-half play ends with both hands and the deck empty.  Termination is
\* stated by a variant: every step of a round leaves one step fewer to the
\* scoring, never ends in an exception, and leaves the chooser an action to
\* pick
C25_RoundTerminates ==
    [][(pc \in PlayPc \cup ChoosePc) =>
           /\ PhasesInOrder
           /\ pc' \in PlayPc \cup ChoosePc \cup {"scored"}
           /\ StepsLeft' = StepsLeft - 1
           /\ pc' \in ChoosePc => offered' # <<>>]_vars
    /\ [][(pc = "first_move") => PhasesInOrder]_vars

\* a round was played to its end and scored
C25_Witness ==
    /\ pc = "scored"
    /\ round = 1
    /\ deck = <<>>
    /\ \A p \in Players : hand[p] = <<>>
    /\ Len(captured[0]) + Len(captured[1]) = NumCards

\* player p holds a hand card of value v
HoldsValue(p, v) == \E i \in 1..Len(hand[p]) : Value(hand[p][i]) = v

\* every creator of every pile on the table holds a card of the pile's value
CreatorsHoldKey ==
    \A i \in 1..Len(table) :
        table[i].pile => \A p \in table[i].creators : HoldsValue(p, table[i].value)

\* C26: after every executed action every creator of every pile on the table
\* still holds a hand card of the pile's value; so whenever both hands are
\* empty, at the end of the first half and at the end of the round, the
\* table holds no pile and end_round sums and awards bare cards only
C26_CreatorsKeepKey ==
    (pc \in PlayPc \cup ChoosePc \cup {"scored"}) =>
        /\ pc # "scored" => CreatorsHoldKey
        /\ (\A p \in Players : hand[p] = <<>>) =>
                \A i \in 1..Len(table) : ~table[i].pile

\* an action was executed and left a pile whose two creators both hold its key
C26_Witness ==
    /\ pc \in PlayPc
    /\ pc # "open_play"
    /\ \E i \in 1..Len(table) :
          /\ table[i].pile
          /\ Cardinality(table[i].creators) = 2
          /\ \A p \in table[i].creators : HoldsValue(p, table[i].value)

\* two offered actions with the same kind, played card, target value and set
\* of consumed items
SameAction(a, b) ==
    /\ a.action_type = b.action_type
    /\ a.played_card = b.played_card
    /\ a.value = b.value
    /\ Range(a.other_cards) = Range(b.other_cards)

\* C27: number_combinations never returns two combinations that consist of
\* the same set of items, and get_valid_actions never offers two actions with
\* the same kind, played card, target value and set of consumed items
C27_NoDuplicateCombinations ==
    /\ pc = "q_combos" =>
          \A i, j \in 1..Len(combos) :
              i # j => Range(combos[i]) # Range(combos[j])
    /\ pc = "q_offered" =>
          \A i, j \in 1..Len(offered) :
              i # j => ~SameAction(offered[i], offered[j])

\* C28: on the opening move, whatever the opener's four cards and the four
\* table cards, and whichever value of 9..13 held by the opener is declared,
\* the list of generated actions of the declared value is not empty, so the
\* chooser of the opening play_turn has an action to pick
C28_OpeningNotEmpty ==
    pc = "open_choose" =>
        /\ offered # <<>>
        /\ \A i \in 1..Len(offered) : offered[i].value = declared
        /\ \E i \in 1..Len(offered) :
              offered[i].action_type \in {ActionType.PICK_UP, ActionType.THROW}

\* the opener declared a value below the highest of the hand and is offered
\* more than one action of that value
C28_Witness ==
    /\ pc = "open_choose"
    /\ declared \in 9..13
    /\ \E c \in Range(hand[turn]) : Value(c) > declared
    /\ Len(offered) >= 2

====
